---------------------------- MODULE Spec2Model ----------------------------
(***************************************************************************)
(* A model of the naive-raytracer integrator (src/src/rendering.rs) and of *)
(* the geometry, colour and texture helpers it calls.                      *)
(*                                                                         *)
(* Numbers.  An f64/f32 value is modelled by an exact rational <<n, d>>    *)
(* in lowest terms with d > 0; <<1, 0>>, <<-1, 0>> and <<0, 0>> stand for  *)
(* +inf, -inf and NaN.  Square roots are exact: the inputs of every        *)
(* specification are drawn from sets on which each square root the code    *)
(* takes is rational.  IEEE rounding is modelled only at the two places    *)
(* where the code decides total internal reflection (rendering.rs:241 and  *)
(* rendering.rs:74): there the sign of the rounding error of the compared  *)
(* quantity is an input, and it matters only when the exact quantity sits  *)
(* on the threshold.                                                       *)
(***************************************************************************)
EXTENDS Integers, Sequences, FiniteSets, TLC

(***************************************************************************)
(* Exact arithmetic standing for the floating-point primitives.            *)
(***************************************************************************)
\* Every primitive is a function of its operands applied to a tuple, so that an
\* operand is evaluated once however often the body refers to it.
Abs(x) == IF x < 0 THEN -x ELSE x

Sgn(x) == IF x < 0 THEN -1 ELSE IF x > 0 THEN 1 ELSE 0

GCDF[p \in Nat \X Nat] == IF p[2] = 0 THEN p[1] ELSE GCDF[<<p[2], p[1] % p[2]>>]

GCD(a, b) == GCDF[<<a, b>>]

NormF[p \in Int \X Int] ==
    IF p[2] = 0 THEN <<Sgn(p[1]), 0>>
    ELSE LET g == GCD(Abs(p[1]), Abs(p[2]))
         IN  <<(Sgn(p[2]) * p[1]) \div g, Abs(p[2]) \div g>>

\* the rational n/d in lowest terms; a zero denominator gives +inf, -inf or NaN
Norm(n, d) == NormF[<<n, d>>]

Rat == Int \X Int

Q(n) == <<n, 1>>

NaN == <<0, 0>>

PosInf == <<1, 0>>

NegInf == <<-1, 0>>

IsNaN(a) == a = NaN

QNegF[a \in Rat] == <<-a[1], a[2]>>

QNeg(a) == QNegF[a]

QAddF[p \in Rat \X Rat] ==
    LET a == p[1]
        b == p[2]
    IN  IF IsNaN(a) \/ IsNaN(b) THEN NaN
        ELSE IF a[2] = 0 /\ b[2] = 0 THEN (IF a = b THEN a ELSE NaN)
        ELSE IF a[2] = 0 THEN a
        ELSE IF b[2] = 0 THEN b
        ELSE LET g == GCD(a[2], b[2])
             IN  Norm(a[1] * (b[2] \div g) + b[1] * (a[2] \div g), (a[2] \div g) * b[2])

QAdd(a, b) == QAddF[<<a, b>>]

QSub(a, b) == QAdd(a, QNeg(b))

QMulF[p \in Rat \X Rat] ==
    LET a == p[1]
        b == p[2]
    IN  IF a[2] = 0 \/ b[2] = 0 THEN Norm(a[1] * b[1], 0)
        ELSE LET g1 == GCD(Abs(a[1]), b[2])
                 g2 == GCD(Abs(b[1]), a[2])
             IN  Norm((a[1] \div g1) * (b[1] \div g2), (a[2] \div g2) * (b[2] \div g1))

QMul(a, b) == QMulF[<<a, b>>]

QInvF[a \in Rat] ==
    IF IsNaN(a) THEN NaN
    ELSE IF a[2] = 0 THEN Q(0)
    ELSE IF a[1] = 0 THEN PosInf
    ELSE <<Sgn(a[1]) * a[2], Abs(a[1])>>

\* 1/a: 1/0 is +inf (signed zeros are not modelled), 1/inf is 0
QInv(a) == QInvF[a]

QDiv(a, b) == QMul(a, QInv(b))

QLtF[p \in Rat \X Rat] ==
    LET a == p[1]
        b == p[2]
    IN  /\ ~IsNaN(a)
        /\ ~IsNaN(b)
        /\ IF a[2] = 0 /\ b[2] = 0 THEN a[1] < b[1] ELSE a[1] * b[2] < b[1] * a[2]

\* the IEEE comparisons: every comparison with NaN is false
QLt(a, b) == QLtF[<<a, b>>]

QGt(a, b) == QLt(b, a)

QLe(a, b) == ~IsNaN(a) /\ ~IsNaN(b) /\ ~QLt(b, a)

QGe(a, b) == QLe(b, a)

QMaxF[p \in Rat \X Rat] ==
    IF IsNaN(p[1]) THEN p[2] ELSE IF IsNaN(p[2]) THEN p[1]
    ELSE IF QLt(p[1], p[2]) THEN p[2] ELSE p[1]

\* f64::max and f64::min return the other operand when one is NaN
QMax(a, b) == QMaxF[<<a, b>>]

QMinF[p \in Rat \X Rat] ==
    IF IsNaN(p[1]) THEN p[2] ELSE IF IsNaN(p[2]) THEN p[1]
    ELSE IF QLt(p[2], p[1]) THEN p[2] ELSE p[1]

QMin(a, b) == QMinF[<<a, b>>]

QAbs(a) == <<Abs(a[1]), a[2]>>

\* the largest r in lo..hi with r * r <= n, by bisection
SqrtSearch[t \in Nat \X Nat \X Nat] ==
    IF t[2] >= t[3] THEN t[2]
    ELSE LET mid == (t[2] + t[3] + 1) \div 2
         IN  IF mid * mid <= t[1] THEN SqrtSearch[<<t[1], mid, t[3]>>]
             ELSE SqrtSearch[<<t[1], t[2], mid - 1>>]

ISqrtFloor(n) == SqrtSearch[<<n, 0, IF n < 46340 THEN n ELSE 46340>>]

IsSquare(n) == n >= 0 /\ ISqrtFloor(n) * ISqrtFloor(n) = n

\* whether sqrt(a) is exact in the model
HasSqrt(a) == a[2] = 0 \/ a[1] < 0 \/ (IsSquare(a[1]) /\ IsSquare(a[2]))

QSqrtF[a \in Rat] ==
    IF IsNaN(a) \/ a = NegInf THEN NaN
    ELSE IF a = PosInf THEN PosInf
    ELSE IF a[1] < 0 THEN NaN
    ELSE Norm(ISqrtFloor(a[1]), ISqrtFloor(a[2]))

\* f64::sqrt: NaN for a negative operand.  Exact where HasSqrt, which the inputs
\* of every specification ensure for the roots the code takes; rounded down
\* elsewhere.
QSqrt(a) == QSqrtF[a]

(***************************************************************************)
(* Vector3 and Point: triples of numbers.                                  *)
(***************************************************************************)
Vec3 == Rat \X Rat \X Rat

Vec(x, y, z) == <<x, y, z>>

VAddF[p \in Vec3 \X Vec3] ==
    <<QAdd(p[1][1], p[2][1]), QAdd(p[1][2], p[2][2]), QAdd(p[1][3], p[2][3])>>

VAdd(a, b) == VAddF[<<a, b>>]

VNeg(a) == <<QNeg(a[1]), QNeg(a[2]), QNeg(a[3])>>

VSub(a, b) == VAdd(a, VNeg(b))

VScaleF[p \in Vec3 \X Rat] == <<QMul(p[1][1], p[2]), QMul(p[1][2], p[2]), QMul(p[1][3], p[2])>>

VScale(a, s) == VScaleF[<<a, s>>]

dotF[p \in Vec3 \X Vec3] ==
    QAdd(QAdd(QMul(p[1][1], p[2][1]), QMul(p[1][2], p[2][2])), QMul(p[1][3], p[2][3]))

dot(a, b) == dotF[<<a, b>>]

\* the squared length
norm(a) == dot(a, a)

length(a) == QSqrt(norm(a))

normalize(a) == VScale(a, QInv(length(a)))

(***************************************************************************)
(* Option<T>: the empty tuple is None, a one-element tuple is Some.        *)
(***************************************************************************)
None == <<>>

Some(x) == <<x>>

IsSome(o) == Len(o) = 1

unwrap(o) == o[1]

(***************************************************************************)
(* Point (src/src/math/point.rs): Point - Point and Point + Vector3.       *)
(***************************************************************************)
Point_sub(p, q) == VSub(p, q)

Point_add(p, v) == VAdd(p, v)

(***************************************************************************)
(* Sphere::intersect, src/src/scene/item/sphere.rs.  A sphere is           *)
(* [center, radius], a ray [origin, direction].                            *)
(***************************************************************************)
\* mutant: the test for roots behind the origin is dropped
Sphere_intersect_NoBehindTest(sphere, ray) ==
    LET os == Point_sub(sphere.center, ray.origin)
        os_on_ray == dot(os, ray.direction)
        d2 == QSub(dot(os, os), QMul(os_on_ray, os_on_ray))
        r2 == QMul(sphere.radius, sphere.radius)
    IN  IF QGt(d2, r2) THEN None
        ELSE LET iq_len == QSqrt(QSub(r2, d2))
             IN  Some(QMin(QAdd(QNeg(iq_len), os_on_ray), QAdd(iq_len, os_on_ray)))

Sphere_intersect(sphere, ray) ==
    LET os == Point_sub(sphere.center, ray.origin)
        os_on_ray == dot(os, ray.direction)
        d2 == QSub(dot(os, os), QMul(os_on_ray, os_on_ray))
        r2 == QMul(sphere.radius, sphere.radius)
    IN  IF QGt(d2, r2) THEN None
        ELSE LET iq_len == QSqrt(QSub(r2, d2))
                 t0 == QAdd(QNeg(iq_len), os_on_ray)
                 t1 == QAdd(iq_len, os_on_ray)
             IN  IF QLt(t0, Q(0)) /\ QLt(t1, Q(0)) THEN None
                 ELSE IF QLt(t0, Q(0)) THEN Some(t1)
                 ELSE IF QLt(t1, Q(0)) THEN Some(t0)
                 ELSE Some(QMin(t0, t1))

(***************************************************************************)
(* Sphere::intersect, src/src/scene.rs (the older scene module).           *)
(***************************************************************************)
scene_Sphere_intersect(sphere, ray) ==
    LET os == Point_sub(sphere.center, ray.origin)
        os_on_ray == dot(os, ray.direction)
        d2 == QSub(dot(os, os), QMul(os_on_ray, os_on_ray))
        r2 == QMul(sphere.radius, sphere.radius)
    IN  IF QGt(d2, r2) THEN None
        ELSE LET iq_len == QSqrt(QSub(r2, d2))
                 t0 == QAdd(iq_len, os_on_ray)
                 t1 == QAdd(QNeg(iq_len), os_on_ray)
             IN  IF QLt(t0, Q(0)) \/ QLt(t1, Q(0)) THEN None
                 ELSE Some(QMin(t0, t1))

(***************************************************************************)
(* trace, src/src/rendering.rs:111.  hits[i] is items[i].intersect(ray);   *)
(* filter_map keeps the Some results in item order as Intersections, and   *)
(* Iterator::min_by folds them, replacing the kept one only by a strictly  *)
(* smaller one.                                                            *)
(***************************************************************************)
Intersection_new(distance, item) == [distance |-> distance, item |-> item]

RECURSIVE filter_map(_, _)
filter_map(hits, i) ==
    IF i > Len(hits) THEN <<>>
    ELSE IF IsSome(hits[i])
         THEN <<Intersection_new(unwrap(hits[i]), i)>> \o filter_map(hits, i + 1)
         ELSE filter_map(hits, i + 1)

\* mutant: the later of two equal elements is kept (max_by's tie rule)
LastGreater(i1, i2) == QGe(i1.distance, i2.distance)

\* partial_cmp(i1.distance, i2.distance) = Greater
Greater(i1, i2) == QGt(i1.distance, i2.distance)

RECURSIVE min_by_from(_, _, _)
min_by_from(xs, best, i) ==
    IF i > Len(xs) THEN best
    ELSE min_by_from(xs, IF Greater(best, xs[i]) THEN xs[i] ELSE best, i + 1)

min_by(xs) == IF Len(xs) = 0 THEN None ELSE Some(min_by_from(xs, xs[1], 2))

trace(hits) == min_by(filter_map(hits, 1))

\* items[i].intersect(ray) for a scene of spheres
intersections(items, ray) == [i \in 1..Len(items) |-> Sphere_intersect(items[i], ray)]

(***************************************************************************)
(* State.  arg and res hold the arguments and the result of one call of a  *)
(* pure function (res is <<>> until the function has been applied); the    *)
(* other variables are the state of one run of render.                     *)
(***************************************************************************)
VARIABLES arg, res, scene, pc, cursor, image, stack, ret, ev

vars == <<arg, res, scene, pc, cursor, image, stack, ret, ev>>

renderVars == <<scene, pc, cursor, image, stack, ret, ev>>

\* no render is running
RenderIdle ==
    /\ scene = <<>>
    /\ pc = "idle"
    /\ cursor = 0
    /\ image = <<>>
    /\ stack = <<>>
    /\ ret = <<>>
    /\ ev = <<>>

Pending == res = <<>>

Done == Len(res) = 1

(***************************************************************************)
(* SpecSphere: Sphere::intersect of both modules applied to spheres with   *)
(* lattice centres and rays with rational unit directions.                 *)
(***************************************************************************)
MaxCoord == 4

MaxRadius == 3

Coords == (-MaxCoord)..MaxCoord

UnitDirs ==
    { Vec(Q(0), Q(0), Q(-1)), Vec(Q(0), Q(0), Q(1)), Vec(Q(1), Q(0), Q(0)),
      Vec(Norm(3, 5), Q(0), Norm(-4, 5)), Vec(Norm(-4, 5), Q(0), Norm(3, 5)),
      Vec(Q(0), Norm(4, 5), Norm(3, 5)) }

SphereOrigins == { Vec(Q(0), Q(0), Q(0)), Vec(Q(1), Q(0), Q(-2)) }

SphereSamples ==
    { [center |-> Vec(Q(x), Q(y), Q(z)), radius |-> Q(r)] :
        x \in Coords, y \in {0, 3}, z \in Coords, r \in 0..MaxRadius }

RaySamples == { [origin |-> o, direction |-> d] : o \in SphereOrigins, d \in UnitDirs }

\* the square root at sphere.rs:26 is taken of a rational square
SphereSqrtExact(sphere, ray) ==
    LET os == Point_sub(sphere.center, ray.origin)
        os_on_ray == dot(os, ray.direction)
        d2 == QSub(dot(os, os), QMul(os_on_ray, os_on_ray))
        r2 == QMul(sphere.radius, sphere.radius)
    IN  QGt(d2, r2) \/ HasSqrt(QSub(r2, d2))

SphereInputs ==
    { a \in [sphere : SphereSamples, ray : RaySamples] : SphereSqrtExact(a.sphere, a.ray) }

InitSphere == arg \in SphereInputs /\ res = <<>> /\ RenderIdle

CallSphereIntersect ==
    /\ Pending
    /\ res' = <<[impl |-> "scene/item/sphere.rs", out |-> Sphere_intersect(arg.sphere, arg.ray)]>>
    /\ UNCHANGED <<arg, renderVars>>

CallSceneSphereIntersect ==
    /\ Pending
    /\ res' = <<[impl |-> "scene.rs", out |-> scene_Sphere_intersect(arg.sphere, arg.ray)]>>
    /\ UNCHANGED <<arg, renderVars>>

NextSphere == CallSphereIntersect \/ CallSceneSphereIntersect

SpecSphere == InitSphere /\ [][NextSphere]_vars

\* The two roots of |origin + t*direction - center|^2 = radius^2, by the quadratic formula.
RootDisc(a) ==
    LET oc == VSub(a.ray.origin, a.sphere.center)
        b == dot(oc, a.ray.direction)
    IN  QSub(QMul(b, b),
             QMul(norm(a.ray.direction), QSub(norm(oc), QMul(a.sphere.radius, a.sphere.radius))))

RootLo(a) ==
    LET oc == VSub(a.ray.origin, a.sphere.center)
    IN  QDiv(QSub(QNeg(dot(oc, a.ray.direction)), QSqrt(RootDisc(a))), norm(a.ray.direction))

RootHi(a) ==
    LET oc == VSub(a.ray.origin, a.sphere.center)
    IN  QDiv(QAdd(QNeg(dot(oc, a.ray.direction)), QSqrt(RootDisc(a))), norm(a.ray.direction))

NearestNonNegativeRoot(a) ==
    IF QLt(RootDisc(a), Q(0)) THEN None
    ELSE IF QGe(RootLo(a), Q(0)) THEN Some(RootLo(a))
    ELSE IF QGe(RootHi(a), Q(0)) THEN Some(RootHi(a))
    ELSE None

\* C4: Sphere::intersect returns the nearest non-negative root (the smaller root
\* when both are non-negative, the non-negative one when the origin is inside the
\* sphere, none when the line misses or both roots are negative), in
\* scene/item/sphere.rs and in scene.rs alike.
C4_NearestNonNegativeRoot == Done => res[1].out = NearestNonNegativeRoot(arg)

\* the part of C4 that is about scene/item/sphere.rs alone
C4_SphereRsOnly ==
    (Done /\ res[1].impl = "scene/item/sphere.rs") => res[1].out = NearestNonNegativeRoot(arg)

OriginOutside(a) ==
    QGt(norm(VSub(a.ray.origin, a.sphere.center)), QMul(a.sphere.radius, a.sphere.radius))

PointsAway(a) == QLt(dot(VSub(a.sphere.center, a.ray.origin), a.ray.direction), Q(0))

MaxItems == 3

\* seen from the origin down -z: near roots 3, 3 and 7, one sphere behind the
\* camera and one beside the axis
TraceSpheres ==
    { [center |-> Vec(Q(0), Q(0), Q(-5)), radius |-> Q(2)],
      [center |-> Vec(Q(0), Q(0), Q(-4)), radius |-> Q(1)],
      [center |-> Vec(Q(0), Q(0), Q(-8)), radius |-> Q(1)],
      [center |-> Vec(Q(0), Q(0), Q(5)), radius |-> Q(1)],
      [center |-> Vec(Q(3), Q(0), Q(-5)), radius |-> Q(1)] }

TraceRays ==
    { [origin |-> Vec(Q(0), Q(0), Q(0)), direction |-> Vec(Q(0), Q(0), Q(-1))],
      [origin |-> Vec(Q(0), Q(0), Q(0)), direction |-> Vec(Q(0), Q(0), Q(1))],
      [origin |-> Vec(Q(0), Q(0), Q(-4)), direction |-> Vec(Q(0), Q(0), Q(-1))] }

ItemLists == UNION { [1..n -> TraceSpheres] : n \in 0..MaxItems }

InitTrace == arg \in [items : ItemLists, ray : TraceRays] /\ res = <<>> /\ RenderIdle

CallTrace ==
    /\ Pending
    /\ res' = <<trace(intersections(arg.items, arg.ray))>>
    /\ UNCHANGED <<arg, renderVars>>

NextTrace == CallTrace

SpecTrace == InitTrace /\ [][NextTrace]_vars

\* C3: trace returns none exactly when no item intersects the ray; otherwise it
\* returns the intersection of least distance among the items that intersect, and
\* among several items at that least distance the first in the scene's item order.
C3_TraceNearestFirst ==
    Done =>
        LET hits == intersections(arg.items, arg.ray)
            found == res[1]
        IN  /\ (found = None) <=> (\A i \in 1..Len(hits) : hits[i] = None)
            /\ IsSome(found) =>
                  LET hit == unwrap(found)
                  IN  /\ hit.item \in 1..Len(hits)
                      /\ hits[hit.item] = Some(hit.distance)
                      /\ \A j \in 1..Len(hits) :
                            IsSome(hits[j]) => QLe(hit.distance, unwrap(hits[j]))
                      /\ \A j \in 1..(hit.item - 1) :
                            IsSome(hits[j]) => QLt(hit.distance, unwrap(hits[j]))

\* C3's case: two items at the same least distance, a third one farther
C3_Witness ==
    /\ Done
    /\ IsSome(res[1])
    /\ LET hits == intersections(arg.items, arg.ray)
           hit == unwrap(res[1])
       IN  /\ \E j \in (hit.item + 1)..Len(hits) : hits[j] = Some(hit.distance)
           /\ \E j \in 1..(hit.item - 1) : IsSome(hits[j])

(***************************************************************************)
(* wrap and Coloration::color, src/src/scene/material.rs:99-127 (the same  *)
(* text as src/src/scene.rs:287-308).                                      *)
(***************************************************************************)
I32_MAX == 2147483647

I32_MIN == -I32_MAX - 1

\* `bound as i32`: a u32 above i32::MAX wraps to a negative number
u32_as_i32(n) == IF n > I32_MAX THEN (n - I32_MAX - 1) + I32_MIN ELSE n

\* `x as i32` of a float: toward zero, NaN to 0, saturating.  The infinities of
\* the model stand for every float at or beyond the ends of the i32 range.
f32_as_i32(x) ==
    IF IsNaN(x) THEN 0
    ELSE IF x = PosInf THEN I32_MAX
    ELSE IF x = NegInf THEN I32_MIN
    ELSE IF x[1] >= 0 THEN x[1] \div x[2]
    ELSE -((-x[1]) \div x[2])

\* the i32 remainder a % b for b # 0: its sign is the sign of a
i32_rem(a, b) ==
    LET m == a % Abs(b)
    IN  IF m = 0 THEN 0 ELSE IF a < 0 THEN m - Abs(b) ELSE m

Returned(v) == [panic |-> FALSE, value |-> v]

\* the process aborts inside the call
Panicked == [panic |-> TRUE, value |-> 0]

\* mutant: the truncating remainder alone, a negative one not lifted by the bound
wrap_TruncatingRemainder(val, bound) ==
    LET signed_bound == u32_as_i32(bound)
        float_coord == QMul(val, Q(bound))
    IN  IF signed_bound = 0 THEN Panicked
        ELSE Returned(i32_rem(f32_as_i32(float_coord), signed_bound))

wrap(val, bound) ==
    LET signed_bound == u32_as_i32(bound)
        float_coord == QMul(val, Q(bound))
    IN  IF signed_bound = 0 THEN Panicked    \* remainder with a divisor of zero
        ELSE LET wrapped_coord == i32_rem(f32_as_i32(float_coord), signed_bound)
             IN  IF wrapped_coord < 0 THEN Returned(wrapped_coord + signed_bound)
                 ELSE Returned(wrapped_coord)

\* ImageBuffer::get_pixel aborts on an index outside the image
get_pixel_in_bounds(tex, u, v) == u < tex.width /\ v < tex.height

\* the Texture arm of Coloration::color, up to the texel it reads
Coloration_color(tex, texture_coords) ==
    LET u == wrap(QDiv(QAdd(texture_coords.u, tex.offset_x), tex.scale), tex.width)
        v == wrap(QDiv(QAdd(texture_coords.v, tex.offset_y), tex.scale), tex.height)
    IN  IF u.panic \/ v.panic THEN [panic |-> TRUE, u |-> u, v |-> v]
        ELSE [panic |-> ~get_pixel_in_bounds(tex, u.value, v.value), u |-> u, v |-> v]

(***************************************************************************)
(* SpecTexture: Coloration::color on textures of up to MaxTexSize texels a *)
(* side.                                                                   *)
(***************************************************************************)
MaxTexSize == 4

CoordSamples ==
    { NegInf, Norm(-5, 2), Q(-1), Norm(-1, 3), Q(0), Norm(1, 4), Norm(1, 2), Norm(2, 3),
      Norm(99, 100), Q(1), Norm(7, 4), Q(3), PosInf, NaN }

TextureSamples ==
    [width : 0..MaxTexSize, height : 0..MaxTexSize,
     offset_x : {Q(0), Norm(1, 2)}, offset_y : {Q(0)}, scale : {Q(1), Norm(1, 10), Q(5)}]

InitTexture ==
    /\ arg \in [tex : TextureSamples, coords : [u : CoordSamples, v : {Q(0), Norm(-3, 4), Norm(1, 2)}]]
    /\ res = <<>>
    /\ RenderIdle

CallColorationColor ==
    /\ Pending
    /\ res' = <<Coloration_color(arg.tex, arg.coords)>>
    /\ UNCHANGED <<arg, renderVars>>

NextTexture == CallColorationColor

SpecTexture == InitTexture /\ [][NextTexture]_vars

\* the two values Coloration::color hands to wrap
WrapArgU(a) == QDiv(QAdd(a.coords.u, a.tex.offset_x), a.tex.scale)

WrapArgV(a) == QDiv(QAdd(a.coords.v, a.tex.offset_y), a.tex.scale)

InUnitInterval(x) == QGe(x, Q(0)) /\ QLt(x, Q(1))

\* floor of the product x * bound, for x in [0, 1)
FloorOfProduct(x, bound) == (x[1] * bound) \div x[2]

\* the contract of one call wrap(val, bound) that gave out
WrapContract(val, bound, out) ==
    /\ ~out.panic
    /\ 0 <= out.value
    /\ out.value < bound
    /\ InUnitInterval(val) => out.value = FloorOfProduct(val, bound)

SHADOW_BIAS == Norm(1, 4096)

\* x > y, for an x computed with a rounding error of sign err
RoundedGt(x, y, err) == QGt(x, y) \/ (x = y /\ err > 0)

\* x < y, for an x computed with a rounding error of sign err
RoundedLt(x, y, err) == QLt(x, y) \/ (x = y /\ err < 0)

\* A product with the relative index 1.0 is exact: 1.0 * sqrt(1 - c*c) exceeds 1 for
\* no c, and 1 - (1 - c*c) * 1.0 * 1.0 is negative for no c.
RoundingOf(eta, err) == IF eta = Q(1) THEN 0 ELSE err

\* a positive number below every other positive number of the model
Sliver == Norm(1, 32768)

create_reflection(normal, incident, intersection, bias) ==
    [origin |-> Point_add(intersection, VScale(normal, bias)),
     direction |-> VSub(incident, VScale(normal, QMul(Q(2), dot(incident, normal))))]

RoundingSign == {-1, 0, 1}

\* rendering.rs:74-82, for p = <<n, incident, intersection, bias, eta, err, i_n, k>>
create_transmission_of_k[p \in Vec3 \X Vec3 \X Vec3 \X Rat \X Rat \X RoundingSign \X Rat \X Rat] ==
    IF RoundedLt(p[8], Q(0), RoundingOf(p[5], p[6])) THEN None
    ELSE Some([origin |-> Point_add(p[3], VScale(VNeg(p[1]), p[4])),
               direction |-> normalize(VSub(VScale(VAdd(p[2], VScale(p[1], p[7])), p[5]),
                                            VScale(p[1], QSqrt(p[8]))))])

\* rendering.rs:64-73, for p = <<normal, incident, intersection, bias, index, err, i_dot_n>>
create_transmission_of_dot[p \in Vec3 \X Vec3 \X Vec3 \X Rat \X Rat \X RoundingSign \X Rat] ==
    LET is_into == QGt(p[7], Q(0))
        i_n == IF is_into THEN p[7] ELSE QNeg(p[7])
        eta == IF is_into THEN p[5] ELSE QDiv(Q(1), p[5])
        n == IF is_into THEN VNeg(p[1]) ELSE p[1]
        k == QSub(Q(1), QMul(QMul(QSub(Q(1), QMul(i_n, i_n)), eta), eta))
    IN  create_transmission_of_k[<<n, p[2], p[3], p[4], eta, p[6], i_n, k>>]

\* err: the sign of the rounding error of k
create_transmission(normal, incident, intersection, bias, index, err) ==
    create_transmission_of_dot[<<normal, incident, intersection, bias, index, err,
                                 dot(incident, normal)>>]

\* mutant: the test for total internal reflection never succeeds
TotalInternalReflection_Never(sin_t, err) == FALSE

\* rendering.rs:241: sin_t > 1.0
TotalInternalReflection(sin_t, err) == RoundedGt(sin_t, Q(1), err)

\* rendering.rs:245-248, for p = <<eta_i, eta_t, cos_t>>
fresnel_of_cos_t[p \in Rat \X Rat \X Rat] ==
    LET eta_i == p[1]
        eta_t == p[2]
        cos_t == p[3]
        cos_i == QAbs(cos_t)
        r_s == QDiv(QSub(QMul(eta_t, cos_i), QMul(eta_i, cos_t)),
                    QAdd(QMul(eta_t, cos_i), QMul(eta_i, cos_t)))
        r_p == QDiv(QSub(QMul(eta_i, cos_i), QMul(eta_t, cos_t)),
                    QAdd(QMul(eta_i, cos_i), QMul(eta_t, cos_t)))
    IN  QDiv(QAdd(QMul(r_s, r_s), QMul(r_p, r_p)), Q(2))

\* rendering.rs:241-249, for p = <<eta_i, eta_t, sin_t, err>>; a sin_t rounded to
\* just below 1 leaves a cos_t just above 0
fresnel_of_sin_t[p \in Rat \X Rat \X Rat \X RoundingSign] ==
    IF TotalInternalReflection(p[3], p[4]) THEN Q(1)
    ELSE fresnel_of_cos_t[<<p[1], p[2],
                            IF p[3] = Q(1) /\ p[4] < 0 THEN Sliver
                            ELSE QSqrt(QMax(QSub(Q(1), QMul(p[3], p[3])), Q(0)))>>]

\* rendering.rs:233-240, for p = <<i_dot_n, index, err>>
fresnel_of_dot[p \in Rat \X Rat \X RoundingSign] ==
    LET swap == QGt(p[1], Q(0))
        eta_i == IF swap THEN p[2] ELSE Q(1)
        eta_t == IF swap THEN Q(1) ELSE p[2]
    IN  fresnel_of_sin_t[<<eta_i, eta_t,
                           QMul(QDiv(eta_i, eta_t),
                                QSqrt(QMax(QSub(Q(1), QMul(p[1], p[1])), Q(0)))),
                           RoundingOf(QDiv(eta_i, eta_t), p[3])>>]

\* err: the sign of the rounding error of sin_t
fresnel(incident, normal, index, err) == fresnel_of_dot[<<dot(incident, normal), index, err>>]

\* rendering.rs:163-181, for p = <<direction, surface_normal, hit_point, index, err, kr>>
refractive_rays_of_kr[p \in Vec3 \X Vec3 \X Vec3 \X Rat \X RoundingSign \X Rat] ==
    LET transmit == QLt(p[6], Q(1))
        transmission_ray ==
            IF transmit
            THEN create_transmission(p[2], p[1], p[3], SHADOW_BIAS, p[4], p[5])
            ELSE None
    IN  [kr |-> p[6],
         transmit |-> transmit,
         transmission_ray |-> transmission_ray,
         panic |-> transmit /\ transmission_ray = None,
         reflection_ray |-> create_reflection(p[2], p[1], p[3], SHADOW_BIAS)]

\* The secondary rays of the Refractive arm of get_color (rendering.rs:162-182):
\* kr, the transmission ray when kr < 1.0 (`expect` aborts on None), and the
\* reflection ray.  rnd = [sin_t, k] are the two rounding signs.
refractive_rays(direction, surface_normal, hit_point, index, rnd) ==
    refractive_rays_of_kr[<<direction, surface_normal, hit_point, index, rnd.k,
                            fresnel(direction, surface_normal, index, rnd.sin_t)>>]

(***************************************************************************)
(* SpecOptics: the Refractive arm applied to unit incident directions and  *)
(* unit normals in the x-z plane and to indices of refraction on both      *)
(* sides of 1.                                                             *)
(***************************************************************************)
\* the unit vectors <<x/d, 0, z/d>> of the x-z plane with d <= MaxDen
MaxDen == 5

PlaneUnits ==
    { Vec(Norm(t[1], t[3]), Q(0), Norm(t[2], t[3])) :
        t \in { u \in ((-MaxDen)..MaxDen) \X ((-MaxDen)..MaxDen) \X (1..MaxDen) :
                   u[1] * u[1] + u[2] * u[2] = u[3] * u[3] } }

IndexSamples ==
    { Norm(1, 2), Norm(3, 4), Norm(4, 5), Q(1), Norm(5, 4), Norm(4, 3), Norm(5, 3), Q(2) }

\* sin_t in exact arithmetic: eta_i/eta_t * sqrt(1 - (incident.normal)^2),
\* eta_i = 1 and eta_t = index, swapped when incident.normal > 0
SinT(incident, normal, index) ==
    LET c == dot(incident, normal)
        ratio == IF QGt(c, Q(0)) THEN index ELSE QDiv(Q(1), index)
    IN  QMul(ratio, QSqrt(QSub(Q(1), QMul(c, c))))

\* the square roots at rendering.rs:245 and rendering.rs:77 are taken of rational squares
OpticsSqrtExact(incident, normal, index) ==
    LET s == SinT(incident, normal, index)
    IN  QGt(s, Q(1)) \/ HasSqrt(QSub(Q(1), QMul(s, s)))

OpticsInputs ==
    { a \in [incident : PlaneUnits, normal : PlaneUnits, index : IndexSamples,
             rnd : [sin_t : RoundingSign, k : RoundingSign]] :
        OpticsSqrtExact(a.incident, a.normal, a.index) }

InitOptics == arg \in OpticsInputs /\ res = <<>> /\ RenderIdle

CallRefractive ==
    /\ Pending
    /\ res' = <<refractive_rays(arg.incident, arg.normal, Vec(Q(0), Q(0), Q(0)),
                                arg.index, arg.rnd)>>
    /\ UNCHANGED <<arg, renderVars>>

NextOptics == CallRefractive

SpecOptics == InitOptics /\ [][NextOptics]_vars

\* the sine of the transmission angle as fresnel computes it exceeds 1
ComputedSinTExceedsOne(a) ==
    RoundedGt(SinT(a.incident, a.normal, a.index), Q(1), RoundingOf(a.index, a.rnd.sin_t))

\* C7: whenever the sine of the transmission angle that fresnel computes exceeds 1,
\* fresnel returns exactly 1.0 and get_color evaluates no transmission ray.
C7_TotalReflectionIsOne ==
    (Done /\ ComputedSinTExceedsOne(arg)) =>
        /\ res[1].kr = Q(1)
        /\ ~res[1].transmit
        /\ res[1].transmission_ray = None

\* C7's case: a ray leaving the denser medium beyond the critical angle
C7_Witness ==
    /\ Done
    /\ QGt(dot(arg.incident, arg.normal), Q(0))
    /\ QGt(arg.index, Q(1))
    /\ QGt(SinT(arg.incident, arg.normal, arg.index), Q(1))
    /\ res[1].kr = Q(1)
    /\ ~res[1].panic

\* C8: shading a Refractive surface never aborts: whenever fresnel returns a
\* reflectance below 1, create_transmission returns a ray, and it returns none only
\* where the reflection-only branch is taken.
C8_TransmissionNeverAborts ==
    Done => /\ ~res[1].panic
            /\ res[1].transmit => IsSome(res[1].transmission_ray)

\* C8 in exact arithmetic: with no rounding error at either comparison the two
\* tests agree
C8_ExactArithmetic ==
    (Done /\ arg.rnd.sin_t = 0 /\ arg.rnd.k = 0) => ~res[1].panic

\* every ray made is a unit vector again
OpticsRaysAreUnit ==
    Done => /\ norm(res[1].reflection_ray.direction) = Q(1)
            /\ IsSome(res[1].transmission_ray) =>
                  norm(unwrap(res[1].transmission_ray).direction) = Q(1)

(***************************************************************************)
(* Color, src/src/color.rs.  A Color is <<r, g, b>>.                       *)
(***************************************************************************)
black == <<Q(0), Q(0), Q(0)>>

Color_add(a, b) == <<QAdd(a[1], b[1]), QAdd(a[2], b[2]), QAdd(a[3], b[3])>>

Color_mul_f32(a, s) == <<QMul(a[1], s), QMul(a[2], s), QMul(a[3], s)>>

Color_mul_Color(a, b) == <<QMul(a[1], b[1]), QMul(a[2], b[2]), QMul(a[3], b[3])>>

\* x.min(1.0).max(0.0): f32::min gives 1.0 for a NaN
clamp(c) == [i \in 1..3 |-> QMax(QMin(c[i], Q(1)), Q(0))]

\* GammaThresholds[b] / 2^20 is the least linear value (rounded up to the
\* grid) that (gamma_encode(x) * 255f32) as u8 turns into the byte b, for
\* gamma_encode(x) = x.powf(1.0 / 2.2) in f32
GammaThresholds ==
    <<
       6, 25, 60, 113, 184, 275, 385, 517, 670, 844, 1041, 1261, 1503, 1769, 
       2059, 2373, 2712, 3075, 3464, 3877, 4317, 4782, 5273, 5790, 6335, 6905, 
       7503, 8128, 8780, 9460, 10168, 10903, 11667, 12459, 13279, 14128, 
       15006, 15913, 16849, 17814, 18808, 19832, 20886, 21969, 23083, 24226, 
       25400, 26604, 27839, 29104, 30400, 31727, 33085, 34473, 35893, 37345, 
       38828, 40342, 41888, 43466, 45076, 46717, 48391, 50097, 51835, 53606, 
       55409, 57245, 59113, 61014, 62948, 64915, 66915, 68948, 71015, 73115, 
       75248, 77415, 79615, 81849, 84116, 86418, 88754, 91123, 93527, 95964, 
       98436, 100943, 103484, 106059, 108669, 111313, 113992, 116706, 119455, 
       122239, 125058, 127912, 130801, 133725, 136685, 139680, 142710, 145776, 
       148878, 152015, 155188, 158396, 161641, 164921, 168238, 171590, 174979, 
       178403, 181864, 185362, 188895, 192466, 196072, 199715, 203395, 207111, 
       210865, 214655, 218481, 222345, 226246, 230184, 234158, 238170, 242220, 
       246306, 250430, 254591, 258789, 263026, 267299, 271610, 275959, 280346, 
       284770, 289232, 293732, 298270, 302846, 307460, 312112, 316802, 321530, 
       326297, 331102, 335945, 340826, 345746, 350705, 355702, 360738, 365812, 
       370925, 376076, 381267, 386496, 391764, 397071, 402417, 407802, 413227, 
       418690, 424192, 429734, 435315, 440935, 446595, 452293, 458032, 463810, 
       469627, 475484, 481381, 487317, 493293, 499309, 505364, 511459, 517595, 
       523770, 529985, 536240, 542535, 548870, 555246, 561661, 568117, 574613, 
       581150, 587726, 594344, 601001, 607699, 614438, 621217, 628036, 634897, 
       641798, 648739, 655722, 662745, 669809, 676914, 684060, 691247, 698475, 
       705744, 713053, 720404, 727797, 735230, 742705, 750220, 757777, 765376, 
       773016, 780697, 788420, 796184, 803989, 811837, 819725, 827656, 835628, 
       843642, 851697, 859795, 867934, 876115, 884338, 892602, 900909, 909258, 
       917649, 926082, 934556, 943073, 951633, 960234, 968878, 977564, 986292, 
       995062, 1003875, 1012730, 1021628, 1030568, 1039551, 1048576
    >>

\* (gamma_encode(x) * 255f32) as u8: the cast saturates and turns a NaN (powf of
\* a NaN or of a negative number) into 0
gamma_encode_u8(x) ==
    IF IsNaN(x) \/ QLt(x, Q(0)) THEN 0
    ELSE IF QGe(x, Q(1)) THEN 255
    ELSE Cardinality({b \in 1..255 : QLe(Norm(GammaThresholds[b], 2^20), x)})

\* mutant: the alpha channel is left at 0
to_rgba8_ZeroAlpha(c) == <<gamma_encode_u8(c[1]), gamma_encode_u8(c[2]), gamma_encode_u8(c[3]), 0>>

to_rgba8(c) == <<gamma_encode_u8(c[1]), gamma_encode_u8(c[2]), gamma_encode_u8(c[3]), 255>>

(***************************************************************************)
(* Scenes.  Ray::new_prime (rendering.rs:25) normalises a direction built  *)
(* from tan(fov/2), and Intersectable::intersect solves a quadratic, so    *)
(* the geometry of a scene is tabulated:                                   *)
(*   items[i]  the material of item i (material.rs:7, :38);                *)
(*   rays[r]   a ray: hits[i] = items[i].intersect(ray), its direction,    *)
(*             the surface normal at its nearest hit, the value of         *)
(*             shader_diffuse there, and the rows of the rays that         *)
(*             create_reflection and create_transmission make there;       *)
(*   prime     the rows of the rays new_prime makes, in pixel order.       *)
(* WellFormed ties the tabulated directions to create_reflection and       *)
(* create_transmission.                                                    *)
(***************************************************************************)
MAX_RECURSION == 25

White == <<Q(1), Q(1), Q(1)>>

Grey(n, d) == <<Norm(n, d), Norm(n, d), Norm(n, d)>>

Diffuse == [surface |-> "Diffuse", reflectivity |-> Q(0), index |-> Q(1),
            transparency |-> Q(0), color |-> White]

Reflective(reflectivity) ==
    [surface |-> "Reflective", reflectivity |-> reflectivity, index |-> Q(1),
     transparency |-> Q(0), color |-> White]

Refractive(index, transparency) ==
    [surface |-> "Refractive", reflectivity |-> Q(0), index |-> index,
     transparency |-> transparency, color |-> White]

NoRounding == [sin_t |-> 0, k |-> 0]

\* a ray that hits something
Hit(hits, direction, normal, diffuse, refl, trans) ==
    [hits |-> hits, direction |-> direction, normal |-> normal, diffuse |-> diffuse,
     refl |-> refl, trans |-> trans, rnd |-> NoRounding]

\* a ray that leaves the scene
Miss(n, direction) ==
    [hits |-> [i \in 1..n |-> None], direction |-> direction, normal |-> direction,
     diffuse |-> black, refl |-> 1, trans |-> 1, rnd |-> NoRounding]

Up == Vec(Q(0), Q(0), Q(1))

Down == Vec(Q(0), Q(0), Q(-1))

Fifths(x, z) == Vec(Norm(x, 5), Q(0), Norm(z, 5))

EmptyScene ==
    [items |-> <<>>, rays |-> <<Miss(0, Down)>>, prime |-> <<1>>]

\* one lit wall that covers a part of the picture; the third ray meets it where
\* shader_diffuse leaves the range [0, 1]
WallScene ==
    [items |-> <<Diffuse>>,
     rays |-> << Hit(<<Some(Q(2))>>, Down, Up, <<Norm(1, 4), Norm(1, 2), Norm(3, 4)>>, 1, 1),
                 Miss(1, Fifths(3, -4)),
                 Hit(<<Some(Q(3))>>, Fifths(-3, -4), Up, <<Q(2), Norm(-1, 2), Q(1)>>, 1, 1) >>,
     prime |-> <<1, 2, 3>>]

\* two perfect mirrors that face each other, the camera between them
MirrorsScene ==
    [items |-> <<Reflective(Q(1)), Reflective(Q(1))>>,
     rays |-> << Hit(<<Some(Q(2)), None>>, Down, Up, Grey(1, 2), 2, 1),
                 Hit(<<None, Some(Q(3))>>, Up, Down, Grey(1, 2), 3, 1),
                 Hit(<<Some(Q(3)), None>>, Down, Up, Grey(1, 2), 2, 1),
                 Miss(2, Fifths(4, -3)) >>,
     prime |-> <<1, 4>>]

\* a half-silvered mirror in front of a lit wall; the second primary ray meets
\* the mirror and the wall at the same distance
MirrorWallScene ==
    [items |-> <<Reflective(Norm(1, 2)), Diffuse>>,
     rays |-> << Hit(<<Some(Q(2)), None>>, Fifths(3, -4), Up, Grey(1, 2), 3, 1),
                 Hit(<<Some(Q(2)), Some(Q(2))>>, Fifths(3, -4), Up, Grey(1, 2), 3, 1),
                 Hit(<<None, Some(Q(3))>>, Fifths(3, 4), Down, White, 1, 1) >>,
     prime |-> <<1, 2>>]

\* a slab of glass of index 4/3 between two parallel planes: the ray that has
\* entered keeps bouncing between the faces and loses a transmitted ray at each
SlabScene ==
    [items |-> <<Refractive(Norm(4, 3), Q(1)), Refractive(Norm(4, 3), Q(1))>>,
     rays |-> << Hit(<<Some(Norm(5, 3)), Some(Norm(10, 3))>>, Fifths(4, -3), Up, black, 5, 2),
                 Hit(<<None, Some(Norm(5, 4))>>, Fifths(3, -4), Down, black, 4, 3),
                 Miss(2, Fifths(4, -3)),
                 Hit(<<Some(Norm(5, 4)), None>>, Fifths(3, 4), Up, black, 2, 5),
                 Miss(2, Fifths(4, 3)) >>,
     prime |-> <<1>>]

\* a pane of glass of index 4/3 in front of a lit wall
PaneScene ==
    [items |-> <<Refractive(Norm(4, 3), Norm(1, 2)), Diffuse>>,
     rays |-> << Hit(<<Some(Norm(5, 3)), Some(Norm(10, 3))>>, Fifths(4, -3), Up, black, 3, 2),
                 Hit(<<None, Some(Norm(5, 4))>>, Fifths(3, -4), Up, White, 1, 1),
                 Miss(2, Fifths(4, 3)) >>,
     prime |-> <<1, 3>>]

\* a prism of index 5/3: the ray enters the first face head-on and meets the
\* second face at the critical angle (5/3 * sqrt(1 - (4/5)^2) = 1), where the
\* comparisons at rendering.rs:241 and rendering.rs:74 depend on the rounding
PrismScene(rnd) ==
    [items |-> <<Refractive(Norm(5, 3), Q(1)), Refractive(Norm(5, 3), Q(1))>>,
     rays |-> << Hit(<<Some(Q(1)), Some(Q(2))>>, Down, Up, black, 4, 2),
                 [Hit(<<None, Some(Q(1))>>, Down, Fifths(3, -4), black, 3, 5)
                    EXCEPT !.rnd = rnd],
                 Miss(2, Vec(Norm(-24, 25), Q(0), Norm(7, 25))),
                 Miss(2, Up),
                 Miss(2, Fifths(-4, -3)) >>,
     prime |-> <<1>>]

Catalogue ==
    {EmptyScene, WallScene, MirrorsScene, MirrorWallScene, SlabScene, PaneScene}
      \cup { PrismScene(rnd) : rnd \in [sin_t : RoundingSign, k : RoundingSign] }

Nearest(s, r) == trace(s.rays[r].hits)

\* the tabulated secondary rays are the ones the code makes
WellFormed(s) ==
    \A r \in 1..Len(s.rays) :
        LET ray == s.rays[r]
            hit == Nearest(s, r)
            item == s.items[unwrap(hit).item]
            origin == Vec(Q(0), Q(0), Q(0))
            made == refractive_rays(ray.direction, ray.normal, origin, item.index, ray.rnd)
        IN  (IsSome(hit) /\ item.surface # "Diffuse") =>
              /\ Len(ray.hits) = Len(s.items)
              /\ s.rays[ray.refl].direction =
                   create_reflection(ray.normal, ray.direction, origin, SHADOW_BIAS).direction
              /\ (item.surface = "Refractive" /\ IsSome(made.transmission_ray)) =>
                   s.rays[ray.trans].direction = unwrap(made.transmission_ray).direction

MaxWidth == 3

MaxHeight == 2

Scenes ==
    { [items |-> s.items, rays |-> s.rays, prime |-> s.prime, width |-> w, height |-> h] :
        s \in {c \in Catalogue : WellFormed(c)}, w \in 0..MaxWidth, h \in 0..MaxHeight }

(***************************************************************************)
(* Spec: one run of render (rendering.rs:119) or of one call of the public *)
(* cast_ray (rendering.rs:131) on a scene.  stack holds the activations of *)
(* cast_ray and get_color, innermost last; ret holds the Color a finished  *)
(* activation returned; ev describes what the last step did.               *)
(***************************************************************************)
EntryDepths == {0, MAX_RECURSION - 1, MAX_RECURSION, MAX_RECURSION + 1}

Entries(s) ==
    { [entry |-> "render"] } \cup
    { [entry |-> "cast_ray", ray |-> r, depth |-> d] : r \in 1..Len(s.rays), d \in EntryDepths }

Init ==
    /\ scene \in Scenes
    /\ arg \in Entries(scene)
    /\ arg.entry = "cast_ray" => (scene.width = MaxWidth /\ scene.height = MaxHeight)
    /\ res = <<>>
    /\ pc = "start"
    /\ cursor = 0
    /\ image = <<>>
    /\ stack = <<>>
    /\ ret = <<>>
    /\ ev = [op |-> "init"]

Frame(fn, ray, depth, item) ==
    [fn |-> fn, ray |-> ray, depth |-> depth, item |-> item, at |-> "entry",
     kr |-> Q(0), refraction_color |-> black, spawned |-> <<>>]

Top == stack[Len(stack)]

Caller == SubSeq(stack, 1, Len(stack) - 1)

\* the ray new_prime makes for the pixel (x, y) = (cursor % width, cursor / width)
PrimeRay == scene.prime[(cursor % Len(scene.prime)) + 1]

\* mutant: the limit is tested with >
RecursionLimitReached_OffByOne(depth) == depth > MAX_RECURSION

\* rendering.rs:132
RecursionLimitReached(depth) == depth >= MAX_RECURSION

\* render, rendering.rs:120: ImageBuffer::from_fn allocates the buffer and then
\* calls the closure once per pixel, row by row
RenderBegin ==
    /\ pc = "start"
    /\ arg.entry = "render"
    /\ pc' = "pixel"
    /\ ev' = [op |-> "render"]
    /\ UNCHANGED <<arg, res, scene, cursor, image, stack, ret>>

\* the closure, rendering.rs:121 and the assertion of new_prime, rendering.rs:26
NewPrimePanics ==
    /\ pc = "pixel"
    /\ cursor < scene.width * scene.height
    /\ ~(scene.width > scene.height)
    /\ pc' = "panicked"
    /\ ev' = [op |-> "panic", at |-> "new_prime"]
    /\ UNCHANGED <<arg, res, scene, cursor, image, stack, ret>>

\* mutant: the closure's pixel is stored in two slots
PixelBackground_WritesTwice ==
    /\ pc = "pixel"
    /\ cursor < scene.width * scene.height
    /\ scene.width > scene.height
    /\ Nearest(scene, PrimeRay) = None
    /\ image' = Append(Append(image, <<0, 0, 0, 0>>), <<0, 0, 0, 0>>)
    /\ cursor' = cursor + 1
    /\ ev' = [op |-> "pixel", hit |-> FALSE, ray |-> PrimeRay]
    /\ UNCHANGED <<arg, res, scene, pc, stack, ret>>

\* the closure, rendering.rs:121-125: the primary ray hits nothing
PixelBackground ==
    /\ pc = "pixel"
    /\ cursor < scene.width * scene.height
    /\ scene.width > scene.height
    /\ Nearest(scene, PrimeRay) = None
    /\ image' = Append(image, <<0, 0, 0, 0>>)
    /\ cursor' = cursor + 1
    /\ ev' = [op |-> "pixel", hit |-> FALSE, ray |-> PrimeRay]
    /\ UNCHANGED <<arg, res, scene, pc, stack, ret>>

\* the closure, rendering.rs:121-123: the primary ray hits an item, get_color is called
PixelShade ==
    /\ pc = "pixel"
    /\ cursor < scene.width * scene.height
    /\ scene.width > scene.height
    /\ IsSome(Nearest(scene, PrimeRay))
    /\ stack' = <<Frame("get_color", PrimeRay, 0, unwrap(Nearest(scene, PrimeRay)).item)>>
    /\ pc' = "call"
    /\ ev' = [op |-> "shade", ray |-> PrimeRay]
    /\ UNCHANGED <<arg, res, scene, cursor, image, ret>>

\* rendering.rs:123: the pixel of the colour get_color returned
PixelWrite ==
    /\ pc = "call"
    /\ arg.entry = "render"
    /\ stack = <<>>
    /\ Len(ret) = 1
    /\ image' = Append(image, to_rgba8(clamp(ret[1])))
    /\ cursor' = cursor + 1
    /\ pc' = "pixel"
    /\ ret' = <<>>
    /\ ev' = [op |-> "pixel", hit |-> TRUE, ray |-> PrimeRay, color |-> ret[1]]
    /\ UNCHANGED <<arg, res, scene, stack>>

\* rendering.rs:128: every pixel is made, render returns the image
RenderReturn ==
    /\ pc = "pixel"
    /\ cursor = scene.width * scene.height
    /\ pc' = "done"
    /\ res' = <<image>>
    /\ ev' = [op |-> "return"]
    /\ UNCHANGED <<arg, scene, cursor, image, stack, ret>>

\* a caller outside rendering.rs calls cast_ray
CastRayCall ==
    /\ pc = "start"
    /\ arg.entry = "cast_ray"
    /\ stack' = <<Frame("cast_ray", arg.ray, arg.depth, 0)>>
    /\ pc' = "call"
    /\ ev' = [op |-> "call"]
    /\ UNCHANGED <<arg, res, scene, cursor, image, ret>>

\* and gets its colour
CastRayReturn ==
    /\ pc = "call"
    /\ arg.entry = "cast_ray"
    /\ stack = <<>>
    /\ Len(ret) = 1
    /\ res' = ret
    /\ pc' = "done"
    /\ ret' = <<>>
    /\ ev' = [op |-> "return"]
    /\ UNCHANGED <<arg, scene, cursor, image, stack>>

Running == pc = "call" /\ stack # <<>>

InCastRay == Running /\ Top.fn = "cast_ray" /\ Top.at = "entry" /\ ret = <<>>

InGetColor == Running /\ Top.fn = "get_color" /\ Top.at = "entry" /\ ret = <<>>

Material == scene.items[Top.item]

TopRay == scene.rays[Top.ray]

\* the secondary ray a call of cast_ray evaluates, by the place get_color resumes at
SecondaryRay(at) == IF at = "transmitted" THEN "transmission" ELSE "reflection"

\* mutant: the secondary ray is cast at the depth of the caller
CallCastRay_SameDepth(at, ray, kr, refraction_color) ==
    Caller \o << [Top EXCEPT !.at = at, !.kr = kr, !.refraction_color = refraction_color,
                             !.spawned = Append(@, SecondaryRay(at))],
                 Frame("cast_ray", ray, Top.depth, 0) >>

\* cast_ray(scene, &ray, depth + 1), rendering.rs:152, 173 and 182; spawned lists
\* the secondary rays the activation of get_color has cast so far
CallCastRay(at, ray, kr, refraction_color) ==
    Caller \o << [Top EXCEPT !.at = at, !.kr = kr, !.refraction_color = refraction_color,
                             !.spawned = Append(@, SecondaryRay(at))],
                 Frame("cast_ray", ray, Top.depth + 1, 0) >>

\* cast_ray, rendering.rs:132-134
CastRayLimit ==
    /\ InCastRay
    /\ RecursionLimitReached(Top.depth)
    /\ stack' = Caller
    /\ ret' = <<black>>
    /\ ev' = [op |-> "cast_ray", depth |-> Top.depth, traced |-> FALSE, shaded |-> FALSE]
    /\ UNCHANGED <<arg, res, scene, pc, cursor, image>>

\* cast_ray, rendering.rs:136-139: trace finds nothing
CastRayMiss ==
    /\ InCastRay
    /\ ~RecursionLimitReached(Top.depth)
    /\ Nearest(scene, Top.ray) = None
    /\ stack' = Caller
    /\ ret' = <<black>>
    /\ ev' = [op |-> "cast_ray", depth |-> Top.depth, traced |-> TRUE, shaded |-> FALSE]
    /\ UNCHANGED <<arg, res, scene, pc, cursor, image>>

\* cast_ray, rendering.rs:136-138: get_color is called at the same depth
CastRayHit ==
    /\ InCastRay
    /\ ~RecursionLimitReached(Top.depth)
    /\ IsSome(Nearest(scene, Top.ray))
    /\ stack' = Caller \o << [Top EXCEPT !.at = "await"],
                             Frame("get_color", Top.ray, Top.depth,
                                   unwrap(Nearest(scene, Top.ray)).item) >>
    /\ ev' = [op |-> "cast_ray", depth |-> Top.depth, traced |-> TRUE, shaded |-> TRUE]
    /\ UNCHANGED <<arg, res, scene, pc, cursor, image, ret>>

\* cast_ray, rendering.rs:137-139: the colour of get_color is the colour of cast_ray
CastRayGotColor ==
    /\ Running
    /\ Top.fn = "cast_ray"
    /\ Top.at = "await"
    /\ Len(ret) = 1
    /\ stack' = Caller
    /\ ev' = [op |-> "cast_ray_return", depth |-> Top.depth]
    /\ UNCHANGED <<arg, res, scene, pc, cursor, image, ret>>

\* get_color, rendering.rs:146
GetColorDiffuse ==
    /\ InGetColor
    /\ Material.surface = "Diffuse"
    /\ stack' = Caller
    /\ ret' = <<TopRay.diffuse>>
    /\ ev' = [op |-> "get_color", depth |-> Top.depth, surface |-> "Diffuse",
              spawned |-> Top.spawned]
    /\ UNCHANGED <<arg, res, scene, pc, cursor, image>>

\* get_color, rendering.rs:147-152, up to the call of cast_ray
GetColorReflective ==
    /\ InGetColor
    /\ Material.surface = "Reflective"
    /\ stack' = CallCastRay("reflected", TopRay.refl, Q(0), black)
    /\ ev' = [op |-> "get_color", depth |-> Top.depth, surface |-> "Reflective"]
    /\ UNCHANGED <<arg, res, scene, pc, cursor, image, ret>>

RefractiveRays ==
    refractive_rays(TopRay.direction, TopRay.normal, Vec(Q(0), Q(0), Q(0)), Material.index,
                    TopRay.rnd)

\* get_color, rendering.rs:163-171: create_transmission gives None and expect aborts
GetColorExpectPanics ==
    /\ InGetColor
    /\ Material.surface = "Refractive"
    /\ RefractiveRays.panic
    /\ pc' = "panicked"
    /\ ev' = [op |-> "panic", at |-> "expect", kr |-> RefractiveRays.kr]
    /\ UNCHANGED <<arg, res, scene, cursor, image, stack, ret>>

\* get_color, rendering.rs:163-172: kr < 1.0, cast_ray is called for the transmission ray
GetColorTransmit ==
    /\ InGetColor
    /\ Material.surface = "Refractive"
    /\ RefractiveRays.transmit
    /\ ~RefractiveRays.panic
    /\ stack' = CallCastRay("transmitted", TopRay.trans, RefractiveRays.kr, black)
    /\ ev' = [op |-> "get_color", depth |-> Top.depth, surface |-> "Refractive",
              kr |-> RefractiveRays.kr, transmit |-> TRUE]
    /\ UNCHANGED <<arg, res, scene, pc, cursor, image, ret>>

\* get_color, rendering.rs:161-181: kr < 1.0 is false, only the reflection ray is cast
GetColorReflectOnly ==
    /\ InGetColor
    /\ Material.surface = "Refractive"
    /\ ~RefractiveRays.transmit
    /\ stack' = CallCastRay("reflected", TopRay.refl, RefractiveRays.kr, black)
    /\ ev' = [op |-> "get_color", depth |-> Top.depth, surface |-> "Refractive",
              kr |-> RefractiveRays.kr, transmit |-> FALSE]
    /\ UNCHANGED <<arg, res, scene, pc, cursor, image, ret>>

\* get_color, rendering.rs:172-181: refraction_color is set, cast_ray is called for
\* the reflection ray
GetColorTransmitted ==
    /\ Running
    /\ Top.fn = "get_color"
    /\ Top.at = "transmitted"
    /\ Len(ret) = 1
    /\ stack' = CallCastRay("reflected", TopRay.refl, Top.kr, ret[1])
    /\ ret' = <<>>
    /\ ev' = [op |-> "get_color_resume", depth |-> Top.depth]
    /\ UNCHANGED <<arg, res, scene, pc, cursor, image>>

\* rendering.rs:150-152 and rendering.rs:182-185, for the colour c of the reflection ray
Combine(c) ==
    IF Material.surface = "Reflective"
    THEN Color_add(Color_mul_f32(TopRay.diffuse, QSub(Q(1), Material.reflectivity)),
                   Color_mul_f32(c, Material.reflectivity))
    ELSE Color_mul_Color(
           Color_mul_f32(Color_add(Color_mul_f32(c, Top.kr),
                                   Color_mul_f32(Top.refraction_color, QSub(Q(1), Top.kr))),
                         Material.transparency),
           Material.color)

GetColorReflected ==
    /\ Running
    /\ Top.fn = "get_color"
    /\ Top.at = "reflected"
    /\ Len(ret) = 1
    /\ stack' = Caller
    /\ ret' = <<Combine(ret[1])>>
    /\ ev' = [op |-> "get_color_return", depth |-> Top.depth, surface |-> Material.surface,
              kr |-> Top.kr, spawned |-> Top.spawned]
    /\ UNCHANGED <<arg, res, scene, pc, cursor, image>>

Next ==
    \/ RenderBegin
    \/ NewPrimePanics
    \/ PixelBackground
    \/ PixelShade
    \/ PixelWrite
    \/ RenderReturn
    \/ CastRayCall
    \/ CastRayReturn
    \/ CastRayLimit
    \/ CastRayMiss
    \/ CastRayHit
    \/ CastRayGotColor
    \/ GetColorDiffuse
    \/ GetColorReflective
    \/ GetColorExpectPanics
    \/ GetColorTransmit
    \/ GetColorReflectOnly
    \/ GetColorTransmitted
    \/ GetColorReflected

Spec == Init /\ [][Next]_vars

\* a render that can take a step takes it
FairSpec == Spec /\ WF_vars(Next)

(***************************************************************************)
(* Properties of Spec.                                                     *)
(***************************************************************************)
IsRender == arg.entry = "render"

Background == <<0, 0, 0, 0>>

\* C1: cast_ray called with depth >= MAX_RECURSION returns black at once, for
\* every scene and ray, without tracing the scene or evaluating a material.
C1_LimitReturnsBlack ==
    (ev.op = "cast_ray" /\ ev.depth >= MAX_RECURSION) =>
        /\ ~ev.traced
        /\ ~ev.shaded
        /\ ret = <<black>>

\* C1's case: a caller passes a depth beyond the limit and a ray that hits an item
C1_Witness ==
    /\ arg.entry = "cast_ray"
    /\ arg.depth = MAX_RECURSION + 1
    /\ IsSome(Nearest(scene, arg.ray))
    /\ ev.op = "cast_ray"
    /\ ev.depth = arg.depth
    /\ stack = <<>>
    /\ ret = <<black>>

\* the depth argument of every activation that render starts stays within the
\* limit, and no more than MAX_RECURSION activations of get_color and of cast_ray
\* are nested
DepthBounded ==
    IsRender =>
        /\ \A i \in 1..Len(stack) : stack[i].depth <= MAX_RECURSION
        /\ Cardinality({i \in 1..Len(stack) : stack[i].fn = "get_color"}) <= MAX_RECURSION
        /\ Cardinality({i \in 1..Len(stack) : stack[i].fn = "cast_ray"}) <= MAX_RECURSION

\* C2: for every scene (facing mirrors and nested refractive items included) the
\* evaluation of every pixel terminates, so that render eventually returns a
\* complete image.
C2_RenderReturnsImage ==
    (IsRender /\ scene.width > scene.height) =>
        <>(pc = "done" /\ Len(image) = scene.width * scene.height)

\* C9: render never returns an image for a scene whose width is less than or
\* equal to its height, whatever the two values are (zero included).
C9_NoImageUnlessWider ==
    (IsRender /\ scene.width <= scene.height) => pc # "done"

\* what is left of C9 for a scene that has a pixel: the first call of new_prime
\* aborts the render before a pixel is made
C9_AbortsAtFirstPixel ==
    (IsRender /\ scene.width <= scene.height /\ scene.width > 0) =>
        (pc # "done" /\ image = <<>> /\ stack = <<>>)

\* the clamped and encoded channel x
ClampedEncoded(x) == gamma_encode_u8(QMax(QMin(x, Q(1)), Q(0)))

\* C10: in the image render returns, the pixel of a primary ray that hits nothing
\* is [0,0,0,0] and no error is raised, the pixel of a primary ray that hits an
\* item is the clamped, encoded colour get_color returned with alpha 255, and a
\* scene with no items gives width * height background pixels.
C10_PixelValues ==
    /\ ev.op = "pixel" =>
         /\ Len(image) = cursor
         /\ pc = "pixel"
         /\ ev.ray = scene.prime[((cursor - 1) % Len(scene.prime)) + 1]
         /\ ev.hit = IsSome(trace(scene.rays[ev.ray].hits))
         /\ ~ev.hit => image[cursor] = Background
         /\ ev.hit => image[cursor] = <<ClampedEncoded(ev.color[1]), ClampedEncoded(ev.color[2]),
                                        ClampedEncoded(ev.color[3]), 255>>
    /\ (IsRender /\ pc = "done") =>
         /\ res = <<image>>
         /\ Len(image) = scene.width * scene.height
         /\ scene.items = <<>> => \A i \in 1..Len(image) : image[i] = Background

\* C10's case: a finished picture of the wall with a lit pixel and a background pixel
C10_Witness ==
    /\ IsRender
    /\ pc = "done"
    /\ Len(image) = MaxWidth
    /\ \E i, j \in 1..Len(image) :
         /\ image[i] = Background
         /\ image[j] = <<135, 186, 223, 255>>

\* C11: render gives exactly width * height pixels: a step that writes the image
\* fills the one slot of the pixel whose primary ray was just evaluated and
\* leaves every slot written before as it was, no step changes the scene, and
\* the image reaches the caller only when every slot is written.
C11_EachSlotOneWriter ==
    [][ /\ scene' = scene
        /\ image' # image =>
             /\ Len(image) = cursor
             /\ cursor < scene.width * scene.height
             /\ Len(image') = Len(image) + 1
             /\ SubSeq(image', 1, Len(image)) = image
             /\ cursor' = cursor + 1
             /\ ev'.op = "pixel"
             /\ ev'.ray = PrimeRay
        /\ (IsRender /\ res' # res) =>
             /\ res' = <<image>>
             /\ image' = image
             /\ Len(image) = scene.width * scene.height
      ]_vars

\* C11's case: render has returned the image of the largest scene, whose pixels
\* come from primary rays that hit and from primary rays that miss
C11_Witness ==
    /\ IsRender
    /\ pc = "done"
    /\ scene.height = MaxHeight
    /\ Len(res[1]) = scene.width * scene.height
    /\ \E i \in 1..Len(res[1]) : res[1][i] = Background
    /\ \E i \in 1..Len(res[1]) : res[1][i] # Background

(***************************************************************************)
(* Plane::intersect, src/src/scene/item/plane.rs:16 (src/src/scene.rs:170  *)
(* is the same code).  A plane is [kind, pos, normal, albedo, color].      *)
(***************************************************************************)
\* the literal 1e-6 of plane.rs:19
PLANE_EPSILON == Norm(1, 1000000)

\* mutant: the plane is hit from both sides
Plane_intersect_TwoSided(plane, ray) ==
    LET denom == dot(plane.normal, ray.direction)
    IN  IF QGt(QAbs(denom), PLANE_EPSILON)
        THEN LET distance == QDiv(dot(Point_sub(plane.pos, ray.origin), plane.normal), denom)
             IN  IF QGe(distance, Q(0)) THEN Some(distance) ELSE None
        ELSE None

Plane_intersect(plane, ray) ==
    LET denom == dot(plane.normal, ray.direction)
    IN  IF QGt(denom, PLANE_EPSILON)
        THEN LET distance == QDiv(dot(Point_sub(plane.pos, ray.origin), plane.normal), denom)
             IN  IF QGe(distance, Q(0)) THEN Some(distance) ELSE None
        ELSE None

\* plane.rs:29
Plane_surface_normal(plane, hit_point) == VNeg(plane.normal)

\* sphere.rs:41
Sphere_surface_normal(sphere, hit_point) == normalize(Point_sub(hit_point, sphere.center))

\* the methods of dyn Intersectable, rendering.rs:86
intersect(item, ray) ==
    IF item.kind = "Plane" THEN Plane_intersect(item, ray) ELSE Sphere_intersect(item, ray)

surface_normal(item, hit_point) ==
    IF item.kind = "Plane" THEN Plane_surface_normal(item, hit_point)
    ELSE Sphere_surface_normal(item, hit_point)

\* trace over a scene of planes and spheres, rendering.rs:111
trace_items(items, ray) == trace([i \in 1..Len(items) |-> intersect(items[i], ray)])

(***************************************************************************)
(* The lights, src/src/scene/light: a directional light is                 *)
(* [kind, direction, color, intensity], a spherical one                    *)
(* [kind, position, color, intensity].  std::f32::consts::PI is taken as   *)
(* 22/7.                                                                   *)
(***************************************************************************)
PI == Norm(22, 7)

Light_intensity(light, hit_point) ==
    IF light.kind = "Directional" THEN light.intensity
    ELSE QDiv(light.intensity,
              QMul(QMul(norm(Point_sub(light.position, hit_point)), Q(4)), PI))

Light_distance(light, hit_point) ==
    IF light.kind = "Directional" THEN PosInf
    ELSE length(Point_sub(light.position, hit_point))

Light_direction_from(light, hit_point) ==
    IF light.kind = "Directional" THEN VNeg(light.direction)
    ELSE normalize(Point_sub(light.position, hit_point))

(***************************************************************************)
(* color_from_light and shader_diffuse, src/src/rendering.rs:191-229.      *)
(***************************************************************************)
shadow_ray(light, hit_point, normal) ==
    [origin |-> Point_add(hit_point, VScale(normal, SHADOW_BIAS)),
     direction |-> Light_direction_from(light, hit_point)]

\* mutant: nothing casts a shadow
is_in_light_Always(shadow_intersection, light_distance) == TRUE

\* rendering.rs:221-222
is_in_light(shadow_intersection, light_distance) ==
    \/ shadow_intersection = None
    \/ QGt(unwrap(shadow_intersection).distance, light_distance)

\* rendering.rs:223-228, for the theta of line 215
color_of_theta(light, hit_point, theta, lit) ==
    Color_mul_f32(light.color,
                  IF lit THEN QMul(Light_intensity(light, hit_point), theta) ELSE Q(0))

color_from_light(items, light, hit_point, normal) ==
    color_of_theta(light, hit_point,
                   dot(normal, Light_direction_from(light, hit_point)),
                   is_in_light(trace_items(items, shadow_ray(light, hit_point, normal)),
                               Light_distance(light, hit_point)))

\* Iterator::sum, color.rs:86: a fold with Add from Color::default()
RECURSIVE Color_sum(_, _, _)
Color_sum(colors, acc, i) ==
    IF i > Len(colors) THEN acc ELSE Color_sum(colors, Color_add(acc, colors[i]), i + 1)

\* Div<f32> for Color, color.rs:75
Color_div_f32(a, s) == <<QDiv(a[1], s), QDiv(a[2], s), QDiv(a[3], s)>>

light_colors(items, lights, hit_point, normal) ==
    [l \in 1..Len(lights) |-> color_from_light(items, lights[l], hit_point, normal)]

\* rendering.rs:197-205; the material's coloration is a plain colour
shader_diffuse(items, lights, item, hit_point, normal) ==
    Color_mul_Color(item.color,
                    Color_div_f32(Color_mul_f32(Color_sum(light_colors(items, lights, hit_point, normal),
                                                          black, 1),
                                                item.albedo),
                                  PI))

(***************************************************************************)
(* SpecShade: shader_diffuse applied at a point of an item of a scene of   *)
(* planes and spheres lit by up to MaxLights lights.                       *)
(***************************************************************************)
MaxLights == 2

Plane(pos, normal) ==
    [kind |-> "Plane", pos |-> pos, normal |-> normal, albedo |-> Norm(1, 2), color |-> White]

Sphere(center, radius) ==
    [kind |-> "Sphere", center |-> center, radius |-> radius, albedo |-> Q(1),
     color |-> <<Q(1), Norm(1, 2), Q(0)>>]

DirectionalLight(direction) ==
    [kind |-> "Directional", direction |-> direction, color |-> White, intensity |-> Q(2)]

SphericalLight(position) ==
    [kind |-> "Spherical", position |-> position, color |-> White, intensity |-> Q(88)]

\* a floor whose visible side looks up, a ceiling whose visible side looks down,
\* a wall at the left and a ball between floor and ceiling
Floor == Plane(Vec(Q(0), Q(0), Q(0)), Vec(Q(0), Q(-1), Q(0)))

Ceiling == Plane(Vec(Q(0), Q(5), Q(0)), Vec(Q(0), Q(1), Q(0)))

Wall == Plane(Vec(Q(-4), Q(0), Q(0)), Vec(Q(-1), Q(0), Q(0)))

Ball == Sphere(Vec(Q(0), Q(3), Q(0)), Q(1))

ShadeItemLists ==
    { <<Floor>>, <<Ball>>, <<Floor, Ball>>, <<Ball, Floor>>, <<Floor, Ceiling>>,
      <<Floor, Wall>>, <<Floor, Ball, Ceiling>> }

\* points of the visible side of an item
HitPoints(item) ==
    IF item = Floor THEN { Vec(Q(0), Q(0), Q(0)) }
    ELSE IF item = Ceiling THEN { Vec(Q(0), Q(5), Q(0)) }
    ELSE IF item = Wall THEN { Vec(Q(-4), Q(0), Q(0)) }
    ELSE { Vec(Q(0), Q(4), Q(0)), Vec(Q(0), Q(2), Q(0)) }

\* a light whose direction is behind the floor by less than the epsilon of
\* Plane::intersect
GrazingLight == DirectionalLight(Vec(Q(1), Norm(1, 2000000), Q(0)))

LightSamples ==
    { DirectionalLight(Vec(Q(0), Q(-1), Q(0))), DirectionalLight(Vec(Q(0), Q(1), Q(0))),
      DirectionalLight(Vec(Norm(-3, 5), Norm(-4, 5), Q(0))), GrazingLight,
      SphericalLight(Vec(Q(0), Q(1), Q(0))), SphericalLight(Vec(Q(0), Norm(9, 2), Q(0))),
      SphericalLight(Vec(Q(3), Q(4), Q(0))) }

LightLists == UNION { [1..n -> LightSamples] : n \in 1..MaxLights }

AxisParallel(v) == Cardinality({i \in 1..3 : v[i] # Q(0)}) <= 1

\* the square roots of the call are exact and its numbers stay small: a shadow
\* ray that is not parallel to an axis meets planes only, and the grazing
\* light is summed with directional lights only
ShadeExact(a) ==
    \A l \in 1..Len(a.lights) :
        /\ a.lights[l].kind = "Spherical" =>
              /\ HasSqrt(norm(Point_sub(a.lights[l].position, a.point)))
              /\ a.lights[l].position # a.point
        /\ ~AxisParallel(Light_direction_from(a.lights[l], a.point)) =>
              \A i \in 1..Len(a.items) : a.items[i].kind = "Plane"
        /\ a.lights[l] = GrazingLight =>
              \A k \in 1..Len(a.lights) : a.lights[k].kind = "Directional"

ShadeInputs ==
    { a \in UNION { [items : {items}, lights : LightLists, hit : 1..Len(items),
                     point : UNION { HitPoints(items[i]) : i \in 1..Len(items) }] :
                    items \in ShadeItemLists } :
        /\ a.point \in HitPoints(a.items[a.hit])
        /\ ShadeExact(a) }

InitShade == arg \in ShadeInputs /\ res = <<>> /\ RenderIdle

\* get_color, rendering.rs:143-146: the normal of the item at the hit point,
\* then shader_diffuse
ShadeNormal(a) == surface_normal(a.items[a.hit], a.point)

CallShaderDiffuse ==
    /\ Pending
    /\ res' = <<[lights |-> light_colors(arg.items, arg.lights, arg.point, ShadeNormal(arg)),
                 color |-> shader_diffuse(arg.items, arg.lights, arg.items[arg.hit], arg.point,
                                          ShadeNormal(arg))]>>
    /\ UNCHANGED <<arg, renderVars>>

NextShade == CallShaderDiffuse

SpecShade == InitShade /\ [][NextShade]_vars

\* what the call computes for light l: the direction to the light, the cosine,
\* the nearest item on the shadow ray and the light's distance
DirToLight(a, l) == Light_direction_from(a.lights[l], a.point)

CosTheta(a, l) == dot(ShadeNormal(a), DirToLight(a, l))

ShadowHit(a, l) == trace_items(a.items, shadow_ray(a.lights[l], a.point, ShadeNormal(a)))

Occluded(a, l) ==
    /\ IsSome(ShadowHit(a, l))
    /\ QLt(unwrap(ShadowHit(a, l)).distance, Light_distance(a.lights[l], a.point))

\* light colour * incident intensity * max(0, cos theta)
LambertTerm(a, l) ==
    Color_mul_f32(a.lights[l].color,
                  QMul(Light_intensity(a.lights[l], a.point), QMax(Q(0), CosTheta(a, l))))

NonNegative(c) == \A i \in 1..3 : QGe(c[i], Q(0))

\* C12: in the diffuse term the contribution of each light at a hit point is
\* light colour * incident intensity * max(0, cos theta) unless the light is
\* shadowed, a light on the far side of the surface (cos theta < 0) contributes
\* zero, and no light contributes a negative amount to the sum of shader_diffuse.
C12_NoNegativeContribution ==
    Done => \A l \in 1..Len(arg.lights) :
              /\ ~Occluded(arg, l) => res[1].lights[l] = LambertTerm(arg, l)
              /\ QLt(CosTheta(arg, l), Q(0)) => res[1].lights[l] = black
              /\ NonNegative(res[1].lights[l])

\* what holds of the code: a light on the far side contributes zero when the
\* shadow ray meets the lit item itself (or another item) before the light
C12_FarSideSelfShadowed ==
    Done => \A l \in 1..Len(arg.lights) :
              /\ QGe(CosTheta(arg, l), Q(0)) => NonNegative(res[1].lights[l])
              /\ (QLt(CosTheta(arg, l), Q(0)) /\ arg.lights[l] # GrazingLight) =>
                    res[1].lights[l] = black

\* the value rendering.rs:223-225 gives a light that is not masked
Unmasked(a, l) ==
    Color_mul_f32(a.lights[l].color,
                  QMul(Light_intensity(a.lights[l], a.point), CosTheta(a, l)))

\* the nearest item on the shadow ray is farther away than the light
BeyondLight(a, l) ==
    /\ IsSome(ShadowHit(a, l))
    /\ QGt(unwrap(ShadowHit(a, l)).distance, Light_distance(a.lights[l], a.point))

gamma_decode(encoded) == IF encoded = Q(0) THEN Q(0) ELSE Q(1)

\* color.rs:29
from_rgba8(rgba8) ==
    << gamma_decode(Norm(rgba8[1], 255)), gamma_decode(Norm(rgba8[2], 255)),
       gamma_decode(Norm(rgba8[3], 255)) >>

\* Coloration::color with the texel's colour, material.rs:110
Coloration_value(coloration, uv) ==
    IF coloration.kind = "Color" THEN Returned(coloration.color)
    ELSE LET texel == Coloration_color(coloration.tex, uv)
         IN  IF texel.panic THEN Panicked
             ELSE Returned(from_rgba8(coloration.pixels[texel.u.value][texel.v.value]))

\* rand::random::<f64>() is in [0, 1)
RandomSamples == { Q(0), Norm(1, 8), Norm(1, 2), Norm(7, 8) }

\* the vector the loop of material.rs:130 makes of three draws
random_vector(r) ==
    VSub(VScale(Vec(r[1], r[2], r[3]), Q(2)), Vec(Q(1), Q(1), Q(1)))

\* the vectors random_in_unit_sphere can return, material.rs:129: the first
\* one of the loop with p.norm() <= 1.0
random_in_unit_sphere ==
    { p \in { random_vector(r) : r \in RandomSamples \X RandomSamples \X RandomSamples } :
        QLe(norm(p), Q(1)) }

\* mutant: a light scatters as every other material does
scatter_LightScatters(material, normal, hit_point, uv, rnd) ==
    LET new_v == normalize(Point_sub(Point_add(Point_add(hit_point, normal), rnd), hit_point))
        color == Coloration_value(material.color, uv)
    IN  IF color.panic THEN Panicked
        ELSE Returned([ray |-> Some([origin |-> Point_add(hit_point, VScale(new_v, SHADOW_BIAS)),
                                     direction |-> new_v]),
                       color |-> Color_mul_f32(color.value, material.albedo)])

\* material.rs:48-69, for the vector rnd that random_in_unit_sphere returned
scatter(material, normal, hit_point, uv, rnd) ==
    LET new_v == normalize(Point_sub(Point_add(Point_add(hit_point, normal), rnd), hit_point))
        color == Coloration_value(material.color, uv)
    IN  IF color.panic THEN Panicked
        ELSE Returned([ray |-> IF material.is_light THEN None
                               ELSE Some([origin |-> Point_add(hit_point, VScale(new_v, SHADOW_BIAS)),
                                          direction |-> new_v]),
                       color |-> Color_mul_f32(color.value, material.albedo)])

(***************************************************************************)
(* SpecScatter: scatter called up to MaxCalls times with the same          *)
(* arguments; res holds the results in call order.                         *)
(***************************************************************************)
MaxCalls == 2

Checker(w) ==
    [kind |-> "Texture",
     tex |-> [width |-> w, height |-> 1, offset_x |-> Q(0), offset_y |-> Q(0), scale |-> Q(1)],
     pixels |-> [x \in 0..(w - 1) |->
                   [y \in {0} |-> IF x = 0 THEN <<0, 0, 0, 255>> ELSE <<255, 255, 0, 255>>]]]

ColorationSamples ==
    { [kind |-> "Color", color |-> <<Q(1), Norm(1, 2), Q(0)>>], Checker(2), Checker(0) }

MaterialSamples ==
    [color : ColorationSamples, albedo : {Q(1), Norm(1, 2)}, is_light : BOOLEAN]

ScatterInputs ==
    [material : MaterialSamples,
     normal : { Vec(Q(0), Q(1), Q(0)), Vec(Q(0), Q(0), Q(-1)) },
     hit_point : { Vec(Q(0), Q(0), Q(0)), Vec(Q(1), Q(0), Q(-2)) },
     uv : { [u |-> Q(0), v |-> Q(0)], [u |-> Norm(1, 2), v |-> Norm(1, 4)] }]

InitScatter == arg \in ScatterInputs /\ res = <<>> /\ RenderIdle

\* the square root of the call is exact
ScatterExact(a, rnd) == HasSqrt(norm(VAdd(a.normal, rnd)))

CallScatter ==
    /\ Len(res) < MaxCalls
    /\ \E rnd \in random_in_unit_sphere :
         /\ ScatterExact(arg, rnd)
         /\ res' = Append(res, scatter(arg.material, arg.normal, arg.hit_point, arg.uv, rnd))
    /\ UNCHANGED <<arg, renderVars>>

NextScatter == CallScatter

SpecScatter == InitScatter /\ [][NextScatter]_vars

\* C14: UniversalMaterial::scatter returns no continuation ray exactly when the
\* material's is_light flag is set and exactly one otherwise, and in both cases
\* the attenuation it returns is the surface coloration at uv scaled by albedo.
C14_ScatterRayUnlessLight ==
    \A i \in 1..Len(res) :
        ~res[i].panic =>
            /\ (res[i].value.ray = None) <=> arg.material.is_light
            /\ ~arg.material.is_light => Len(res[i].value.ray) = 1
            /\ res[i].value.color =
                 Color_mul_f32(Coloration_value(arg.material.color, arg.uv).value,
                               arg.material.albedo)

\* C14's case: a textured light ends the path and still attenuates by its texel
C14_Witness ==
    /\ Len(res) = 1
    /\ arg.material.is_light
    /\ arg.material.color.kind = "Texture"
    /\ ~res[1].panic
    /\ res[1].value.ray = None
    /\ res[1].value.color = <<Norm(1, 2), Norm(1, 2), Q(0)>>

\* C16: rendering is deterministic, and every random draw of scatter comes from
\* a source the caller can fix, not from hidden state: what the caller passes
\* determines the result, so that calls of scatter with the same arguments
\* return the same continuation ray and attenuation.
C16_ScatterDrawsFixedByCaller ==
    \A i, j \in 1..Len(res) : res[i] = res[j]

(***************************************************************************)
(* SpecPlane: Plane::intersect applied to planes through lattice points    *)
(* and rays whose directions lie on both sides of the planes, some of them *)
(* within the epsilon of the plane and some parallel to it.                *)
(***************************************************************************)
PlaneNormals ==
    { Vec(Q(0), Q(-1), Q(0)), Vec(Q(0), Q(1), Q(0)), Vec(Norm(3, 5), Norm(-4, 5), Q(0)),
      Vec(Q(0), Q(0), Q(-1)) }

PlaneSamples ==
    { Plane(Vec(Q(0), Q(y), Q(z)), n) : y \in Coords, z \in {0, -MaxCoord}, n \in PlaneNormals }

\* directions within the epsilon of the planes y = const, on it and beyond it
SliverDirections ==
    { Vec(Q(1), Norm(-1, 2000000), Q(0)), Vec(Q(1), Norm(-1, 1000000), Q(0)),
      Vec(Q(1), Norm(-1, 500000), Q(0)), Vec(Q(1), Norm(1, 500000), Q(0)) }

PlaneDirections ==
    UnitDirs \cup SliverDirections \cup
    { Vec(Q(0), Q(-1), Q(0)), Vec(Q(0), Q(1), Q(0)), Vec(NaN, Q(-1), Q(0)) }

PlaneRays ==
    [origin : { Vec(Q(0), Q(0), Q(0)), Vec(Q(1), Q(2), Q(-2)) }, direction : PlaneDirections]

\* the numbers of the call stay small
PlaneInputs ==
    { a \in [plane : PlaneSamples, ray : PlaneRays] :
        a.ray.direction \in SliverDirections => AxisParallel(a.plane.normal) }

InitPlane == arg \in PlaneInputs /\ res = <<>> /\ RenderIdle

CallPlaneIntersect ==
    /\ Pending
    /\ res' = <<Plane_intersect(arg.plane, arg.ray)>>
    /\ UNCHANGED <<arg, renderVars>>

NextPlane == CallPlaneIntersect

SpecPlane == InitPlane /\ [][NextPlane]_vars

\* plane normal . ray direction
Facing(a) == dot(a.plane.normal, a.ray.direction)

\* the t of the ray-plane formula: (pos - origin) . normal / normal . direction
PlaneDistance(a) ==
    QDiv(dot(VSub(a.plane.pos, a.ray.origin), a.plane.normal), Facing(a))

\* origin + t * direction lies in the plane
OnPlane(a, t) ==
    dot(VSub(VAdd(a.ray.origin, VScale(a.ray.direction, t)), a.plane.pos), a.plane.normal) = Q(0)

\* C15: Plane::intersect returns a hit exactly when the ray is front-facing
\* (plane normal . ray direction > 1e-6) and the distance of the ray-plane
\* formula is non-negative; a parallel or back-facing ray and a plane behind
\* the origin get none, and every distance returned is >= 0.
C15_FrontFacingNonNegative ==
    Done =>
        LET denom == Facing(arg)
            t == PlaneDistance(arg)
        IN  /\ IsSome(res[1]) <=> (QGt(denom, PLANE_EPSILON) /\ QGe(t, Q(0)))
            /\ IsSome(res[1]) =>
                 /\ unwrap(res[1]) = t
                 /\ QGe(unwrap(res[1]), Q(0))
                 /\ OnPlane(arg, unwrap(res[1]))
            /\ QLe(denom, Q(0)) => res[1] = None
            /\ QLt(t, Q(0)) => res[1] = None

\* C15's case: a ray that goes toward the back of a plane in front of it and
\* would meet it at a positive distance gets none
C15_Witness ==
    /\ Done
    /\ QLt(Facing(arg), Q(0))
    /\ QGt(PlaneDistance(arg), Q(0))
    /\ res[1] = None

\* C17: the depth cap is enforced at every recursive entry: get_color is entered
\* from render at depth 0 or from cast_ray at cast_ray's own depth, a secondary
\* ray of an activation of get_color at depth d is evaluated by cast_ray at depth
\* d + 1 and never by get_color directly, so get_color runs only with
\* depth < MAX_RECURSION and depth increases from each activation of a function
\* to every activation of the same function nested in it.
C17_DepthCapAtEveryEntry ==
    \A i \in 1..Len(stack) :
        /\ stack[i].fn = "get_color" => stack[i].depth < MAX_RECURSION
        /\ (i = 1 /\ stack[i].fn = "get_color") => (IsRender /\ stack[i].depth = 0)
        /\ (i > 1 /\ stack[i].fn = "get_color") =>
             (stack[i - 1].fn = "cast_ray" /\ stack[i].depth = stack[i - 1].depth)
        /\ (i > 1 /\ stack[i].fn = "cast_ray") =>
             (stack[i - 1].fn = "get_color" /\ stack[i].depth = stack[i - 1].depth + 1)
        /\ \A j \in 1..Len(stack) :
             (i < j /\ stack[i].fn = stack[j].fn) => stack[i].depth < stack[j].depth

\* C17's case: between two facing mirrors a render has nested get_color down to
\* depth MAX_RECURSION - 1, and the reflection ray cast there meets the cap
C17_Witness ==
    /\ IsRender
    /\ Len(stack) = 2 * MAX_RECURSION
    /\ stack[1].fn = "get_color"
    /\ stack[Len(stack) - 1].fn = "get_color"
    /\ stack[Len(stack) - 1].depth = MAX_RECURSION - 1
    /\ stack[Len(stack)].fn = "cast_ray"
    /\ stack[Len(stack)].depth = MAX_RECURSION

\* the secondary rays an evaluation of a material of the given surface type
\* casts, for the Fresnel reflectance kr
SpawnedBy(surface, kr) ==
    IF surface = "Diffuse" THEN <<>>
    ELSE IF surface = "Reflective" THEN <<"reflection">>
    ELSE IF QLt(kr, Q(1)) THEN <<"transmission", "reflection">>
    ELSE <<"reflection">>

\* the evaluations of get_color that come back cast the rays of their surface type
C18_SpawnedWhenReturned ==
    /\ (ev.op = "get_color" /\ ev.surface = "Diffuse") => ev.spawned = <<>>
    /\ ev.op = "get_color_return" => ev.spawned = SpawnedBy(ev.surface, ev.kr)

\* C18: one material evaluation in get_color spawns between 0 and 2 secondary
\* rays, fixed by the surface type: Diffuse none, Reflective exactly one
\* reflection ray, Refractive always one reflection ray and one transmission
\* ray exactly when the Fresnel reflectance is below 1; an evaluation that has
\* ended, by a return or by an abort, has cast them.
C18_SecondaryRaysBySurface ==
    /\ C18_SpawnedWhenReturned
    /\ (pc = "panicked" /\ ev.op = "panic" /\ ev.at = "expect") =>
         Top.spawned = SpawnedBy(scene.items[Top.item].surface, ev.kr)

=============================================================================
